---- MODULE Spec2Model ----
(***************************************************************************)
(* State machine of UpNextState (resources/lib/state.py): the session      *)
(* state of the "play next" service, its next / now-playing resolution     *)
(* and its popup timing.                                                   *)
(*                                                                         *)
(* Python None is the empty tuple <<>> and a present value v is <<v>>, so  *)
(* that optional fields compare without mixing types.  Times are whole     *)
(* seconds; detect_time alone is held in units of 1/3600 s, so that the    *)
(* true division of _set_detect_time is exact.                             *)
(***************************************************************************)
EXTENDS Integers, Sequences, FiniteSets, TLC

VARIABLES
    SETTINGS,         \* the addon configuration, read-only for the session
    data,             \* plugin payload (None or a payload)
    encoding,
    current_item,
    filename,
    total_time,
    next_item,
    popup_time,
    popup_cue,
    detect_time,
    shuffle_on,
    starting,
    tracking,
    played_in_a_row,
    queued,
    playing_next,
    keep_playing,
    last              \* history: the last operation, its inputs, its result

vars == <<SETTINGS, data, encoding, current_item, filename, total_time,
          next_item, popup_time, popup_cue, detect_time, shuffle_on, starting,
          tracking, played_in_a_row, queued, playing_next, keep_playing, last>>

itemVars == <<current_item, next_item, shuffle_on, played_in_a_row, queued>>
timingVars == <<total_time, popup_time, popup_cue, detect_time>>
trackVars == <<filename, starting, tracking, playing_next, keep_playing>>

----------------------------------------------------------------------------
\* Optional values

None == <<>>
Some(v) == <<v>>
IsSet(o) == o # <<>>
Val(o) == o[1]

\* Python truthiness of an optional integer: None and 0 are falsy
TruthyInt(o) == IsSet(o) /\ Val(o) # 0

Max(S) == CHOOSE x \in S : \A y \in S : y <= x

----------------------------------------------------------------------------
\* constants.py

POPUP_MIN_DURATION == 5
UNDEFINED == -1
SPECIALS == 0
SETTING_DISABLED == 0
SETTING_ON == 1
SETTING_OFF == 2
PLUGIN_DATA_ERROR == 1
PLUGIN_DIRECT == 2
PLUGIN_PLAYLIST == 4
PLUGIN_PLAY_URL == 8
PLUGIN_PLAY_INFO == 16

\* constants.PLUGIN_TYPES: every composite type has a source name
PLUGIN_TYPES(plugin_type) == "plugin_" \o ToString(plugin_type)

\* detect_time is held in 1/DetectUnit s
DetectUnit == 3600

----------------------------------------------------------------------------
\* Inputs

\* Player.Chapters as parsed: chapter starts in percent of the duration
ChapterLists ==
    { <<>>, <<85>>, <<50, 92>>, <<50, 75, 85>>, <<85, 95>>, <<20, 60>> }

TotalTimes == {0, 11, 50, 100, 1800}

DetectedTimes == {None, Some(0), Some(40), Some(120)}

NotificationTimes == {None, Some(3), Some(10)}
NotificationOffsets == {None, Some(30), Some(98)}

\* SETTINGS.popup_durations: total-time threshold -> popup duration
PopupDurationTables ==
    { (0 :> 0) @@ (20 :> 8) @@ (50 :> 15),
      (0 :> 0) @@ (300 :> 60) @@ (1200 :> 180) }

DefaultSettings ==
    [ unwatched_only |-> FALSE,
      played_limit |-> 2,
      detect_enabled |-> TRUE,
      detect_chapters |-> FALSE,
      detect_chapters_threshold |-> 80,
      detect_period |-> 60,
      enable_queue |-> FALSE,
      popup_durations |-> (0 :> 0),
      sim_cue |-> SETTING_DISABLED,
      enable_tmdbhelper_fallback |-> FALSE,
      import_tmdbhelper |-> FALSE ]

\* detect_enabled with its period, detect_chapters with its threshold
DetectSettings == {<<FALSE, 60>>, <<TRUE, 60>>, <<TRUE, 3000>>}
ChapterSettings == {<<FALSE, 80>>, <<TRUE, 80>>, <<TRUE, 60>>}

TimingSettings ==
    { [ DefaultSettings EXCEPT
          !.detect_enabled = de[1], !.detect_period = de[2],
          !.detect_chapters = dc[1], !.detect_chapters_threshold = dc[2],
          !.enable_queue = eq, !.popup_durations = pd, !.sim_cue = sc ] :
        de \in DetectSettings, dc \in ChapterSettings,
        eq \in BOOLEAN, pd \in PopupDurationTables,
        sc \in {SETTING_DISABLED, SETTING_ON, SETTING_OFF} }

\* Raw videos as the collaborators and plugins report them
EpA1 == [id |-> 1, type |-> "episode", season |-> 1, playcount |-> 0, group |-> "showA"]
EpA2 == [id |-> 2, type |-> "episode", season |-> 2, playcount |-> 1, group |-> "showA"]
MovB == [id |-> 3, type |-> "movie", season |-> UNDEFINED, playcount |-> 0, group |-> "setB"]

Videos == {EpA1, EpA2, MovB}
OptVideos == {None} \cup {Some(v) : v \in Videos}

\* api.get_playlist_position: a position in the host playlist, or None
Positions == {None, Some(1)}

\* A plugin payload; a field a payload lacks reads as None / FALSE, and
\* empty marks the dict without keys
NoPayloadFields ==
    [ empty |-> FALSE, play_direct |-> FALSE, play_url |-> FALSE,
      play_info |-> FALSE, current_episode |-> None, current_video |-> None,
      next_video |-> None, notification_time |-> None,
      notification_offset |-> None ]

EmptyPayload == [NoPayloadFields EXCEPT !.empty = TRUE]

ItemPayloads ==
    { NoPayloadFields,
      [NoPayloadFields EXCEPT !.next_video = Some(EpA2),
                              !.current_video = Some(EpA1)],
      [NoPayloadFields EXCEPT !.play_url = TRUE,
                              !.current_episode = Some(MovB),
                              !.next_video = Some(EpA1)] }

TimingPayloads ==
    { [ NoPayloadFields EXCEPT
          !.play_url = TRUE, !.next_video = Some(EpA2),
          !.notification_time = nt, !.notification_offset = no ] :
        nt \in NotificationTimes, no \in NotificationOffsets }

\* The argument of set_plugin_data: None, or (data, encoding)
Pushes(payloads, encodings) ==
    {None} \cup { Some([data |-> d, encoding |-> e]) :
                     d \in payloads \cup {EmptyPayload}, e \in encodings }

TimingPushes == Pushes(TimingPayloads, {None})
ItemPushes == Pushes(ItemPayloads, {None})

----------------------------------------------------------------------------
\* utils.py

\* utils.get_int(obj, key, default): the integer under key, else default
get_int(field, default) == IF IsSet(field) THEN Val(field) ELSE default

\* utils.create_item_details(item, source, position): the details, the
\* source and the group of the descriptor
create_item_details(video, source, position) ==
    [ details |-> video, source |-> Some(source),
      group_name |-> Some(video.group) ]

\* utils.create_item_details(item, reset=True): the empty descriptor
ResetDetails ==
    [id |-> UNDEFINED, type |-> "unknown", season |-> UNDEFINED,
     playcount |-> UNDEFINED, group |-> ""]

reset_item_details ==
    [ details |-> ResetDetails, source |-> None, group_name |-> None ]

----------------------------------------------------------------------------
\* History

LastInit ==
    [ op |-> "init", chapters |-> <<>>, detected |-> None, position |-> None,
      found |-> None, queried |-> {}, result |-> None, pre_played |-> 1,
      pre_group |-> None, total |-> 0, threshold |-> 0,
      plugin_type |-> None, on_start |-> FALSE, at_call |-> None,
      file |-> None, pre_file |-> None, pre_next |-> None,
      pre_cue |-> FALSE, given |-> None, raised |-> FALSE,
      pre_item |-> None ]

Did(op) == [LastInit EXCEPT !.op = op]

----------------------------------------------------------------------------
\* UpNextState.__init__

InitState ==
    /\ data = None
    /\ encoding = Some("base64")
    /\ current_item = reset_item_details
    /\ filename = None
    /\ total_time = 0
    /\ next_item = None
    /\ popup_time = 0
    /\ popup_cue = FALSE
    /\ detect_time = Some(0)
    /\ shuffle_on = FALSE
    /\ starting = 0
    /\ tracking = FALSE
    /\ played_in_a_row = 1
    /\ queued = FALSE
    /\ playing_next = FALSE
    /\ keep_playing = FALSE

\* mutant of reset: the group play count survives
reset_KeepsCount ==
    /\ data' = None
    /\ encoding' = Some("base64")
    /\ current_item' = reset_item_details
    /\ filename' = None
    /\ total_time' = 0
    /\ next_item' = None
    /\ popup_time' = 0
    /\ popup_cue' = FALSE
    /\ detect_time' = Some(0)
    /\ shuffle_on' = FALSE
    /\ starting' = 0
    /\ tracking' = FALSE
    /\ played_in_a_row' = played_in_a_row
    /\ queued' = FALSE
    /\ playing_next' = FALSE
    /\ keep_playing' = FALSE
    /\ last' = [Did("reset") EXCEPT !.pre_played = played_in_a_row]
    /\ UNCHANGED SETTINGS

\* UpNextState.reset
reset ==
    /\ data' = None
    /\ encoding' = Some("base64")
    /\ current_item' = reset_item_details
    /\ filename' = None
    /\ total_time' = 0
    /\ next_item' = None
    /\ popup_time' = 0
    /\ popup_cue' = FALSE
    /\ detect_time' = Some(0)
    /\ shuffle_on' = FALSE
    /\ starting' = 0
    /\ tracking' = FALSE
    /\ played_in_a_row' = 1
    /\ queued' = FALSE
    /\ playing_next' = FALSE
    /\ keep_playing' = FALSE
    /\ last' = [Did("reset") EXCEPT !.pre_played = played_in_a_row]
    /\ UNCHANGED SETTINGS

\* mutant of get_plugin_type: every component that applies is added
get_plugin_type_Additive(playlist_next) ==
    IF IsSet(data) /\ ~Val(data).empty
    THEN Some(PLUGIN_DATA_ERROR
              + (IF Val(data).play_direct THEN PLUGIN_DIRECT ELSE 0)
              + (IF IsSet(playlist_next) /\ Val(playlist_next) # 0
                 THEN PLUGIN_PLAYLIST ELSE 0)
              + (IF Val(data).play_url THEN PLUGIN_PLAY_URL ELSE 0)
              + (IF Val(data).play_info THEN PLUGIN_PLAY_INFO ELSE 0))
    ELSE None

\* mutant of get_plugin_type: a playlist position goes before play_direct
get_plugin_type_PlaylistFirst(playlist_next) ==
    IF IsSet(data) /\ ~Val(data).empty
    THEN Some(PLUGIN_DATA_ERROR
              + (IF IsSet(playlist_next) /\ Val(playlist_next) # 0
                 THEN PLUGIN_PLAYLIST
                 ELSE IF Val(data).play_direct THEN PLUGIN_DIRECT ELSE 0)
              + (IF Val(data).play_url THEN PLUGIN_PLAY_URL
                 ELSE IF Val(data).play_info THEN PLUGIN_PLAY_INFO ELSE 0))
    ELSE None

\* UpNextState.get_plugin_type: None without plugin data, else the composite
get_plugin_type(playlist_next) ==
    IF IsSet(data) /\ ~Val(data).empty
    THEN Some(PLUGIN_DATA_ERROR
              + (IF Val(data).play_direct THEN PLUGIN_DIRECT
                 ELSE IF IsSet(playlist_next) /\ Val(playlist_next) # 0
                      THEN PLUGIN_PLAYLIST ELSE 0)
              + (IF Val(data).play_url THEN PLUGIN_PLAY_URL
                 ELSE IF Val(data).play_info THEN PLUGIN_PLAY_INFO ELSE 0))
    ELSE None

\* UpNextState.set_plugin_data
set_plugin_data(plugin_data) ==
    /\ IF ~IsSet(plugin_data)
       THEN /\ data' = None
            /\ encoding' = None
       ELSE LET d == Val(plugin_data).data
                mapped == IF IsSet(d.current_episode)
                          THEN [d EXCEPT !.current_video = d.current_episode,
                                         !.current_episode = None]
                          ELSE d
            IN /\ data' = Some(mapped)
               /\ encoding' = IF IsSet(Val(plugin_data).encoding)
                               THEN Val(plugin_data).encoding
                               ELSE Some("base64")
    /\ last' = Did("set_plugin_data")
    /\ UNCHANGED <<SETTINGS, itemVars, timingVars, trackVars>>

----------------------------------------------------------------------------
\* Popup timing

\* mutant of set_detect_time: the cue point is not looked at
set_detect_time_IgnoreCue(new_popup_time, new_popup_cue, new_total_time) ==
    IF ~SETTINGS.detect_enabled
    THEN None
    ELSE Some(Max({0, DetectUnit * new_popup_time
                      - SETTINGS.detect_period * new_total_time}))

\* UpNextState._set_detect_time, from the popup time and cue just stored
set_detect_time(new_popup_time, new_popup_cue, new_total_time) ==
    IF new_popup_cue \/ ~SETTINGS.detect_enabled
    THEN None
    ELSE Some(Max({0, DetectUnit * new_popup_time
                      - SETTINGS.detect_period * new_total_time}))

\* mutant of get_final_chapter_time: only the last remaining chapter is tried
get_final_chapter_time_LastOnly(chapters, total, threshold) ==
    LET valid == SelectSeq(chapters,
                     LAMBDA c : IF total > 10
                                THEN c * total < (total - 10) * 100
                                ELSE c < 0)
    IN IF Len(chapters) < 2 THEN None
       ELSE IF Len(valid) < 2 THEN None
       ELSE IF valid[Len(valid)] >= threshold
            THEN Some((valid[Len(valid)] * total) \div 100)
       ELSE None

\* mutant of get_final_chapter_time: one remaining chapter is enough
get_final_chapter_time_OneIsEnough(chapters, total, threshold) ==
    LET valid == SelectSeq(chapters,
                     LAMBDA c : IF total > 10
                                THEN c * total < (total - 10) * 100
                                ELSE c < 0)
        chapters_in_last_30 == SelectSeq(valid, LAMBDA c : c >= 70)
    IN IF Len(chapters) < 2 THEN None
       ELSE IF Len(valid) < 1 THEN None
       ELSE IF Len(chapters_in_last_30) = 1 /\ chapters_in_last_30[1] >= 90
            THEN Some((chapters_in_last_30[1] * total) \div 100)
       ELSE IF valid[Len(valid)] >= threshold
            THEN Some((valid[Len(valid)] * total) \div 100)
       ELSE None

\* UpNextState.get_final_chapter_time: chapters are the parsed percentages
get_final_chapter_time(chapters, total, threshold) ==
    LET valid == SelectSeq(chapters,
                     LAMBDA c : IF total > 10
                                THEN c * total < (total - 10) * 100
                                ELSE c < 0)
        chapters_in_last_30 == SelectSeq(valid, LAMBDA c : c >= 70)
    IN IF Len(chapters) < 2 THEN None
       ELSE IF Len(valid) < 2 THEN None
       ELSE IF Len(chapters_in_last_30) = 1 /\ chapters_in_last_30[1] >= 90
            THEN Some((chapters_in_last_30[1] * total) \div 100)
       ELSE IF valid[Len(valid)] >= threshold
            THEN Some((valid[Len(valid)] * total) \div 100)
       ELSE None

\* set_popup_time, chapter detection: the local popup_time and popup_cue
ChapterStage(chapters, total) ==
    LET chapter_time == get_final_chapter_time(
                            chapters, total, SETTINGS.detect_chapters_threshold)
    IN IF SETTINGS.detect_chapters /\ TruthyInt(chapter_time)
       THEN [popup_time |-> Val(chapter_time),
             popup_cue |-> (SETTINGS.sim_cue = SETTING_ON)]
       ELSE [popup_time |-> 0, popup_cue |-> popup_cue]

\* mutant of PluginCandidate: a non-zero offset is taken before the duration
PluginCandidate_OffsetFirst(total) ==
    LET popup_duration == get_int(Val(data).notification_time, 0)
        offset == get_int(Val(data).notification_offset, 0)
    IN IF offset # 0 THEN offset
       ELSE IF POPUP_MIN_DURATION <= popup_duration /\ popup_duration < total
       THEN total - popup_duration
       ELSE offset

\* set_popup_time, plugin data: the candidate popup time of the payload
PluginCandidate(total) ==
    LET popup_duration == get_int(Val(data).notification_time, 0)
        offset == get_int(Val(data).notification_offset, 0)
    IN IF POPUP_MIN_DURATION <= popup_duration /\ popup_duration < total
       THEN total - popup_duration
       ELSE offset

\* mutant of PluginAccepts: no margin is kept before the end of playback
PluginAccepts_NoMargin(candidate, total) ==
    0 < candidate /\ candidate <= total

\* set_popup_time, plugin data: whether the candidate is taken
PluginAccepts(candidate, total) ==
    0 < candidate /\ candidate <= total - POPUP_MIN_DURATION

\* mutant of PluginStage: plugin data is used whatever was found before
PluginStage_Always(s, total) ==
    IF TruthyInt(get_plugin_type(None))
    THEN IF PluginAccepts(PluginCandidate(total), total)
         THEN [popup_time |-> PluginCandidate(total),
               popup_cue |-> (SETTINGS.sim_cue # SETTING_OFF)]
         ELSE [popup_time |-> 0, popup_cue |-> s.popup_cue]
    ELSE s

\* set_popup_time, plugin data: used when chapter detection found nothing
PluginStage(s, total) ==
    IF s.popup_time = 0 /\ TruthyInt(get_plugin_type(None))
    THEN IF PluginAccepts(PluginCandidate(total), total)
         THEN [popup_time |-> PluginCandidate(total),
               popup_cue |-> (SETTINGS.sim_cue # SETTING_OFF)]
         ELSE [popup_time |-> 0, popup_cue |-> s.popup_cue]
    ELSE s

\* mutant of FallbackDuration: a threshold equal to the total time counts
FallbackDuration_AtOrBelow(total) ==
    SETTINGS.popup_durations[
        Max({0} \cup {d \in DOMAIN SETTINGS.popup_durations : total >= d})]

\* set_popup_time, addon settings: the configured popup duration
FallbackDuration(total) ==
    SETTINGS.popup_durations[
        Max({0} \cup {d \in DOMAIN SETTINGS.popup_durations : total > d})]

FallbackTime(total) ==
    IF POPUP_MIN_DURATION <= FallbackDuration(total)
       /\ FallbackDuration(total) < total
    THEN total - FallbackDuration(total)
    ELSE total - POPUP_MIN_DURATION

\* mutant of FallbackStage: the cue point is left as it was
FallbackStage_KeepsCue(s, total) ==
    IF s.popup_time = 0
    THEN [popup_time |-> FallbackTime(total), popup_cue |-> s.popup_cue]
    ELSE s

FallbackStage(s, total) ==
    IF s.popup_time = 0
    THEN [popup_time |-> FallbackTime(total),
          popup_cue |-> (SETTINGS.sim_cue = SETTING_ON)]
    ELSE s

\* set_popup_time: the total time the sources are computed against
AdjustedTotal(new_total_time) ==
    IF SETTINGS.enable_queue THEN new_total_time - 1 ELSE new_total_time

\* UpNextState.set_popup_time; chapters is what Player.Chapters reads
set_popup_time(new_total_time, chapters) ==
    LET total == AdjustedTotal(new_total_time)
        s == FallbackStage(
                 PluginStage(ChapterStage(chapters, total), total), total)
    IN /\ total_time' = new_total_time
       /\ popup_time' = s.popup_time
       /\ popup_cue' = s.popup_cue
       /\ detect_time' = set_detect_time(s.popup_time, s.popup_cue,
                                           new_total_time)
       /\ last' = [Did("set_popup_time") EXCEPT !.chapters = chapters,
                                              !.pre_cue = popup_cue]
       /\ UNCHANGED <<SETTINGS, data, encoding, itemVars, trackVars>>

\* set_detected_popup_time: a detected time overrides the popup time
DetectedPopupTime(detected_time) ==
    IF TruthyInt(detected_time) THEN Val(detected_time) ELSE 0

\* mutant of DetectedPopupCue: the cue point is left as it was
DetectedPopupCue_Keep(detected_time) == popup_cue

\* set_detected_popup_time: the cue point is enabled with a detected time
DetectedPopupCue(detected_time) ==
    IF TruthyInt(detected_time)
    THEN SETTINGS.sim_cue # SETTING_OFF
    ELSE popup_cue

\* UpNextState.set_detected_popup_time
set_detected_popup_time(detected_time) ==
    /\ popup_time' = DetectedPopupTime(detected_time)
    /\ popup_cue' = DetectedPopupCue(detected_time)
    /\ detect_time' = set_detect_time(DetectedPopupTime(detected_time),
                                        DetectedPopupCue(detected_time),
                                        total_time)
    /\ last' = [Did("set_detected_popup_time") EXCEPT
                    !.detected = detected_time]
    /\ UNCHANGED <<SETTINGS, data, encoding, itemVars, trackVars, total_time>>

----------------------------------------------------------------------------
\* The popup timing of one playback: plugin pushes and the timing calls

InitTiming ==
    /\ SETTINGS \in TimingSettings
    /\ InitState
    /\ last = LastInit

PushTiming == \E pd \in TimingPushes : set_plugin_data(pd)

SetPopupTime ==
    \E t \in TotalTimes, ch \in ChapterLists : set_popup_time(t, ch)

SetDetectedPopupTime ==
    \E d \in DetectedTimes : set_detected_popup_time(d)

NextTiming ==
    \/ PushTiming
    \/ SetPopupTime
    \/ SetDetectedPopupTime
    \/ reset

SpecTiming == InitTiming /\ [][NextTiming]_vars

-----------------------------------------------------------------------------
\* get_final_chapter_time on its own: a static method of its two arguments
\* and the player's chapter list

MaxChapters == 3
ChapterPercents == {50, 75, 85, 92, 99}
ChapterTotals == {10, 100, 1200}
ChapterThresholds == {80, 95}

RECURSIVE SeqsUpTo(_, _)
SeqsUpTo(S, n) ==
    IF n = 0 THEN { <<>> }
    ELSE LET shorter == SeqsUpTo(S, n - 1)
         IN shorter \cup { Append(q, x) : q \in shorter, x \in S }

PlayerChapters == SeqsUpTo(ChapterPercents, MaxChapters)

\* the arguments and the player's chapters, before the call
InitChapters ==
    /\ SETTINGS = DefaultSettings
    /\ InitState
    /\ \E ch \in PlayerChapters, t \in ChapterTotals,
          th \in ChapterThresholds :
           last = [Did("chapters") EXCEPT !.chapters = ch, !.total = t,
                                          !.threshold = th]

\* the call: its result is recorded, the state is not touched
GetFinalChapterTime ==
    /\ last.op = "chapters"
    /\ last' = [last EXCEPT
                  !.op = "get_final_chapter_time",
                  !.result = get_final_chapter_time(last.chapters, last.total,
                                                    last.threshold)]
    /\ UNCHANGED <<SETTINGS, data, encoding, itemVars, timingVars, trackVars>>

NextChapters == GetFinalChapterTime

SpecChapters == InitChapters /\ [][NextChapters]_vars

----------------------------------------------------------------------------
\* Next and now-playing items

\* Python truthiness of a playlist position
TruthyPosition(position) == IsSet(position) /\ Val(position) # 0

\* mutant of PluginNextVideo: a watched next_video is kept
PluginNextVideo_KeepWatched == Val(data).next_video

\* get_next, plugin data: next_video of the payload, less a watched one
PluginNextVideo ==
    LET next_video == Val(data).next_video
    IN IF SETTINGS.unwatched_only
          /\ get_int(IF IsSet(next_video)
                     THEN Some(Val(next_video).playcount) ELSE None,
                     UNDEFINED) > 0
       THEN None
       ELSE next_video

\* mutant of GetNextLookup: a plugin without a next video falls through to
\* the library
GetNextLookup_FallThrough(next_position, answer) ==
    IF TruthyInt(get_plugin_type(next_position))
    THEN IF IsSet(PluginNextVideo)
         THEN [ queried |-> {"plugin"}, next_video |-> PluginNextVideo,
                source |-> PLUGIN_TYPES(Val(get_plugin_type(next_position))) ]
         ELSE [ queried |-> {"plugin", "library"}, next_video |-> answer,
                source |-> "library" ]
    ELSE IF TruthyPosition(next_position) /\ ~shuffle_on
    THEN [ queried |-> {"playlist"}, next_video |-> answer,
           source |-> "playlist" ]
    ELSE [ queried |-> {"library"}, next_video |-> answer,
           source |-> "library" ]

\* get_next: the source consulted, what it yields and its source tag;
\* answer is what the host collaborator of the branch taken would return
GetNextLookup(next_position, answer) ==
    IF TruthyInt(get_plugin_type(next_position))
    THEN [ queried |-> {"plugin"}, next_video |-> PluginNextVideo,
           source |-> PLUGIN_TYPES(Val(get_plugin_type(next_position))) ]
    ELSE IF TruthyPosition(next_position) /\ ~shuffle_on
    THEN [ queried |-> {"playlist"}, next_video |-> answer,
           source |-> "playlist" ]
    ELSE [ queried |-> {"library"}, next_video |-> answer,
           source |-> "library" ]

\* mutant of StillWatching: the seasons are compared with shuffle on too
StillWatching_ShuffleToo(next_video) ==
    \/ next_video.type = "movie"
    \/ Cardinality({SPECIALS, next_video.season,
                    current_item.details.season}) = 3

\* get_next, library: the next item calls for the Still Watching? popup
StillWatching(next_video) ==
    \/ next_video.type = "movie"
    \/ /\ ~shuffle_on
       /\ Cardinality({SPECIALS, next_video.season,
                        current_item.details.season}) = 3

\* get_next: the value returned
GetNextResult(new_next_item) == new_next_item

\* UpNextState.get_next
get_next(next_position, answer) ==
    LET look == GetNextLookup(next_position, answer)
        new_next_item ==
            IF IsSet(look.next_video)
            THEN Some(create_item_details(Val(look.next_video), look.source,
                                          next_position))
            ELSE next_item
    IN /\ played_in_a_row' =
            IF /\ look.source = "library"
               /\ IsSet(look.next_video)
               /\ StillWatching(Val(look.next_video))
            THEN SETTINGS.played_limit
            ELSE played_in_a_row
       /\ next_item' = new_next_item
       /\ last' = [Did("get_next") EXCEPT
                       !.position = next_position,
                       !.found = look.next_video,
                       !.queried = look.queried,
                       !.result = GetNextResult(new_next_item),
                       !.pre_played = played_in_a_row]
       /\ UNCHANGED <<SETTINGS, data, encoding, current_item, shuffle_on,
                       queued, timingVars, trackVars>>

\* UpNextState._get_plugin_now_playing; now_playing is what the host's
\* now-playing query would answer
get_plugin_now_playing(now_playing) ==
    IF IsSet(data) /\ ~Val(data).empty
    THEN IF IsSet(Val(data).current_video)
         THEN Val(data).current_video
         ELSE now_playing
    ELSE None

\* _get_plugin_now_playing: the collaborator it asks, if any
PluginNowPlayingQueried ==
    IF IsSet(data) /\ ~Val(data).empty /\ ~IsSet(Val(data).current_video)
    THEN {"now_playing"}
    ELSE {}

\* mutant of NowPlayingLookup: a known playlist position goes before the
\* plugin type
NowPlayingLookup_PlaylistFirst(playlist_position, plugin_type, answer) ==
    IF TruthyPosition(playlist_position)
    THEN [ new_video |-> answer, source |-> Some("playlist"),
           queried |-> {"playlist"} ]
    ELSE IF TruthyInt(plugin_type)
    THEN [ new_video |-> get_plugin_now_playing(answer),
           source |-> Some(PLUGIN_TYPES(Val(plugin_type))),
           queried |-> PluginNowPlayingQueried ]
    ELSE [ new_video |-> answer,
           source |-> IF IsSet(answer) THEN Some("library") ELSE None,
           queried |-> {"library"} ]

\* process_now_playing: the video resolved, its source tag and the
\* collaborator asked; answer is what the collaborator of the branch taken
\* would return
NowPlayingLookup(playlist_position, plugin_type, answer) ==
    IF TruthyInt(plugin_type)
    THEN [ new_video |-> get_plugin_now_playing(answer),
           source |-> Some(PLUGIN_TYPES(Val(plugin_type))),
           queried |-> PluginNowPlayingQueried ]
    ELSE IF TruthyPosition(playlist_position)
    THEN [ new_video |-> answer, source |-> Some("playlist"),
           queried |-> {"playlist"} ]
    ELSE [ new_video |-> answer,
           source |-> IF IsSet(answer) THEN Some("library") ELSE None,
           queried |-> {"library"} ]

\* mutant of NewPlayedInARow: the count is reset for every new item
NewPlayedInARow_AlwaysReset(new_item) == 1

\* process_now_playing: played_in_a_row once new_item is resolved
NewPlayedInARow(new_item) ==
    IF new_item.group_name # current_item.group_name
    THEN 1
    ELSE played_in_a_row

\* mutant of NowPlayingResult: the item held before the call
NowPlayingResult_Before(new_current_item) == Some(current_item)

\* process_now_playing returns self.current_item as the call leaves it
NowPlayingResult(new_current_item) == Some(new_current_item)

\* UpNextState.process_now_playing
process_now_playing(playlist_position, plugin_type, answer) ==
    LET look == NowPlayingLookup(playlist_position, plugin_type, answer)
        resolved == IsSet(look.new_video) /\ IsSet(look.source)
        new_item == create_item_details(Val(look.new_video),
                                        Val(look.source), playlist_position)
    IN /\ IF resolved
          THEN /\ played_in_a_row' = NewPlayedInARow(new_item)
               /\ current_item' = new_item
          ELSE UNCHANGED <<played_in_a_row, current_item>>
       /\ last' = [Did("process_now_playing") EXCEPT
                       !.position = playlist_position,
                       !.plugin_type = plugin_type,
                       !.found = IF resolved THEN look.new_video ELSE None,
                       !.queried = look.queried,
                       !.result = NowPlayingResult(current_item'),
                       !.pre_played = played_in_a_row,
                       !.pre_group = current_item.group_name]
       /\ UNCHANGED <<SETTINGS, data, encoding, next_item, shuffle_on, queued,
                       timingVars, trackVars>>

\* mutant of reset_item: the next item is kept after the roll-over
reset_item_KeepsNext ==
    /\ current_item' = IF IsSet(next_item) THEN Val(next_item)
                                           ELSE reset_item_details
    /\ next_item' = next_item
    /\ last' = [Did("reset_item") EXCEPT !.pre_next = next_item]
    /\ UNCHANGED <<SETTINGS, data, encoding, shuffle_on, played_in_a_row,
                    queued, timingVars, trackVars>>

\* UpNextState.reset_item
reset_item ==
    /\ current_item' = IF IsSet(next_item) THEN Val(next_item)
                                           ELSE reset_item_details
    /\ next_item' = None
    /\ last' = [Did("reset_item") EXCEPT !.pre_next = next_item]
    /\ UNCHANGED <<SETTINGS, data, encoding, shuffle_on, played_in_a_row,
                    queued, timingVars, trackVars>>

\* api.reset_queue: the queue is cleared
api_reset_queue == FALSE

\* mutant of QueuedPlayedInARow: counted whenever the queue is reset
QueuedPlayedInARow_Always(on_start) == played_in_a_row + 1

\* reset_queue with an item queued: played_in_a_row before the queue is
\* cleared
QueuedPlayedInARow(on_start) ==
    IF on_start THEN played_in_a_row + 1 ELSE played_in_a_row

\* UpNextState.reset_queue; at_call is played_in_a_row as api.reset_queue
\* is called
reset_queue(on_start) ==
    /\ IF queued
       THEN /\ played_in_a_row' = QueuedPlayedInARow(on_start)
            /\ queued' = api_reset_queue
       ELSE UNCHANGED <<played_in_a_row, queued>>
    /\ last' = [Did("reset_queue") EXCEPT
                   !.on_start = on_start,
                   !.pre_played = played_in_a_row,
                   !.queried = IF queued THEN {"api.reset_queue"} ELSE {},
                   !.at_call = IF queued
                               THEN Some(QueuedPlayedInARow(on_start))
                               ELSE None]
    /\ UNCHANGED <<SETTINGS, data, encoding, current_item, next_item,
                    shuffle_on, timingVars, trackVars>>

\* the player queues the next item: state.queued is assigned
set_queued ==
    /\ ~queued
    /\ queued' = TRUE
    /\ last' = Did("player")
    /\ UNCHANGED <<SETTINGS, data, encoding, current_item, next_item,
                    shuffle_on, played_in_a_row, timingVars, trackVars>>

\* the player follows the host's shuffle mode: state.shuffle_on is assigned
set_shuffle_on(on) ==
    /\ shuffle_on # on
    /\ shuffle_on' = on
    /\ last' = Did("player")
    /\ UNCHANGED <<SETTINGS, data, encoding, current_item, next_item,
                    played_in_a_row, queued, timingVars, trackVars>>

----------------------------------------------------------------------------
\* The session: plugin pushes, next / now-playing resolution, roll-over

\* played_in_a_row is counted up to MaxPlayed
MaxPlayed == 3

ItemSettings ==
    { [DefaultSettings EXCEPT !.unwatched_only = uo] : uo \in BOOLEAN }

\* the plugin_type argument of process_now_playing
PluginTypeArgs == {None, Some(PLUGIN_DATA_ERROR + PLUGIN_PLAY_URL)}

Init ==
    /\ SETTINGS \in ItemSettings
    /\ InitState
    /\ last = LastInit

PushItems == \E pd \in ItemPushes : set_plugin_data(pd)

GetNext ==
    \E np \in Positions, answer \in OptVideos : get_next(np, answer)

ProcessNowPlaying ==
    \E pos \in Positions, pt \in PluginTypeArgs, answer \in OptVideos :
        process_now_playing(pos, pt, answer)

ResetQueue ==
    \E on_start \in BOOLEAN :
        /\ (queued /\ on_start) => played_in_a_row < MaxPlayed
        /\ reset_queue(on_start)

SetShuffle == \E on \in BOOLEAN : set_shuffle_on(on)

Next ==
    \/ PushItems
    \/ GetNext
    \/ ProcessNowPlaying
    \/ reset_item
    \/ ResetQueue
    \/ set_queued
    \/ SetShuffle
    \/ reset

Spec == Init /\ [][Next]_vars

----------------------------------------------------------------------------
\* The library session: episodes of one show with its specials, and a movie

EpA0 == [id |-> 4, type |-> "episode", season |-> SPECIALS, playcount |-> 0, group |-> "showA"]

LibraryVideos == {EpA0, EpA1, EpA2, MovB}
OptLibraryVideos == {None} \cup {Some(v) : v \in LibraryVideos}

LibraryPushes ==
    { None,
      Some([data |-> [NoPayloadFields EXCEPT !.next_video = Some(EpA2)],
            encoding |-> None]) }

InitLibrary ==
    /\ SETTINGS = DefaultSettings
    /\ InitState
    /\ last = LastInit

PushLibrary == \E pd \in LibraryPushes : set_plugin_data(pd)

GetNextLibrary ==
    \E np \in Positions, answer \in OptLibraryVideos : get_next(np, answer)

NowPlayingLibrary ==
    \E answer \in OptLibraryVideos : process_now_playing(None, None, answer)

NextLibrary ==
    \/ PushLibrary
    \/ GetNextLibrary
    \/ NowPlayingLibrary
    \/ SetShuffle
    \/ reset_item
    \/ set_queued
    \/ ResetQueue
    \/ reset

SpecLibrary == InitLibrary /\ [][NextLibrary]_vars

----------------------------------------------------------------------------
\* The monitor's side: plugin pushes, their classification, file tracking

\* mutant of start_tracking: a file already tracked is kept
start_tracking_KeepsFirst(f) ==
    /\ tracking' = TRUE
    /\ filename' = IF IsSet(filename) THEN filename ELSE Some(f)
    /\ last' = [Did("start_tracking") EXCEPT !.file = Some(f),
                                              !.pre_file = filename]
    /\ UNCHANGED <<SETTINGS, data, encoding, itemVars, timingVars,
                    starting, playing_next, keep_playing>>

\* UpNextState.start_tracking
start_tracking(f) ==
    /\ tracking' = TRUE
    /\ filename' = Some(f)
    /\ last' = [Did("start_tracking") EXCEPT !.file = Some(f),
                                              !.pre_file = filename]
    /\ UNCHANGED <<SETTINGS, data, encoding, itemVars, timingVars,
                    starting, playing_next, keep_playing>>

\* mutant of stop_tracking: the filename is dropped as well
stop_tracking_DropsFile ==
    /\ tracking' = FALSE
    /\ filename' = None
    /\ last' = Did("stop_tracking")
    /\ UNCHANGED <<SETTINGS, data, encoding, itemVars, timingVars,
                    starting, playing_next, keep_playing>>

\* UpNextState.stop_tracking
stop_tracking ==
    /\ tracking' = FALSE
    /\ last' = Did("stop_tracking")
    /\ UNCHANGED <<SETTINGS, data, encoding, itemVars, timingVars,
                    filename, starting, playing_next, keep_playing>>

\* UpNextState.reset_tracking
reset_tracking ==
    /\ tracking' = FALSE
    /\ filename' = None
    /\ last' = Did("reset_tracking")
    /\ UNCHANGED <<SETTINGS, data, encoding, itemVars, timingVars,
                    starting, playing_next, keep_playing>>

\* payloads with every combination of the three play flags
MonitorPayloads ==
    { [NoPayloadFields EXCEPT !.play_direct = d, !.play_url = u,
                              !.play_info = i, !.next_video = Some(EpA1)] :
        d \in BOOLEAN, u \in BOOLEAN, i \in BOOLEAN }

MonitorPushes == Pushes(MonitorPayloads, {None, Some("json")})

\* the playlist_next argument of get_plugin_type
PlaylistNextArgs == {None, Some(0), Some(1)}

TrackedFiles == {"a.mkv", "b.mkv"}

InitMonitor ==
    /\ SETTINGS = DefaultSettings
    /\ InitState
    /\ last = LastInit

PushMonitor == \E pd \in MonitorPushes : set_plugin_data(pd)

\* a call of get_plugin_type: its argument and result are recorded, the
\* state is not touched
GetPluginType ==
    \E playlist_next \in PlaylistNextArgs :
        /\ last' = [Did("get_plugin_type") EXCEPT
                       !.position = playlist_next,
                       !.plugin_type = get_plugin_type(playlist_next)]
        /\ UNCHANGED <<SETTINGS, data, encoding, itemVars, timingVars,
                        trackVars>>

StartTracking == \E f \in TrackedFiles : start_tracking(f)

NextMonitor ==
    \/ PushMonitor
    \/ GetPluginType
    \/ StartTracking
    \/ stop_tracking
    \/ reset_tracking
    \/ reset

SpecMonitor == InitMonitor /\ [][NextMonitor]_vars

----------------------------------------------------------------------------
\* One session with every operation: pushes, items, timing, tracking, the
\* player's own assignments and reset

\* the player assigns state.starting
set_starting(n) ==
    /\ starting # n
    /\ starting' = n
    /\ last' = Did("player")
    /\ UNCHANGED <<SETTINGS, data, encoding, itemVars, timingVars, filename,
                    tracking, playing_next, keep_playing>>

\* the player assigns state.playing_next and state.keep_playing
set_playing_next(next, keep) ==
    /\ <<playing_next, keep_playing>> # <<next, keep>>
    /\ playing_next' = next
    /\ keep_playing' = keep
    /\ last' = Did("player")
    /\ UNCHANGED <<SETTINGS, data, encoding, itemVars, timingVars, filename,
                    starting, tracking>>

SessionPushes ==
    { None,
      Some([data |-> [NoPayloadFields EXCEPT !.next_video = Some(EpA2),
                                             !.notification_time = Some(10)],
            encoding |-> None]) }

SessionAnswers == {None, Some(EpA1), Some(MovB)}

InitSession ==
    /\ SETTINGS = [DefaultSettings EXCEPT !.detect_enabled = TRUE]
    /\ InitState
    /\ last = LastInit

PushSession == \E pd \in SessionPushes : set_plugin_data(pd)

GetNextSession == \E answer \in SessionAnswers : get_next(None, answer)

NowPlayingSession ==
    \E answer \in SessionAnswers : process_now_playing(None, None, answer)

SetPopupTimeSession == set_popup_time(100, <<>>)

SetDetectedSession == set_detected_popup_time(Some(40))

SetStarting == \E n \in {0, 1} : set_starting(n)

SetPlayingNext ==
    \E pk \in {<<FALSE, FALSE>>, <<TRUE, FALSE>>, <<TRUE, TRUE>>} :
        set_playing_next(pk[1], pk[2])

NextSession ==
    \/ PushSession
    \/ GetNextSession
    \/ NowPlayingSession
    \/ reset_item
    \/ SetPopupTimeSession
    \/ SetDetectedSession
    \/ StartTracking
    \/ stop_tracking
    \/ reset_tracking
    \/ SetStarting
    \/ SetPlayingNext
    \/ reset

SpecSession == InitSession /\ [][NextSession]_vars

----------------------------------------------------------------------------
\* The library now-playing reconciliation. In this part season, episode,
\* tmdb_id and player are texts, as the query parameters of a plugin URL
\* are; "-1" is the text of constants.UNDEFINED.

UNKNOWN == "unknown"
UNDEFINED_TXT == "-1"
ADDON_ID == "service.upnext"
TMDBH_ADDON_ID == "plugin.video.themoviedb.helper"

\* the query parameters of a URL; "" is a parameter the URL lacks
NoArgs ==
    [tmdb_id |-> "", tmdb_type |-> "", player |-> "", season |-> "",
     episode |-> ""]

\* a media path: scheme "" is the empty path
NoUrl == [scheme |-> "", addon |-> "", args |-> NoArgs]
FileUrl == [scheme |-> "file", addon |-> "", args |-> NoArgs]
TrustedUrl ==
    [scheme |-> "plugin", addon |-> TMDBH_ADDON_ID,
     args |-> [NoArgs EXCEPT !.tmdb_id = "55", !.tmdb_type = "tv",
                             !.player = "helper", !.season = "3",
                             !.episode = "4"]]
OwnUrl ==
    [scheme |-> "plugin", addon |-> ADDON_ID,
     args |-> [NoArgs EXCEPT !.season = "5", !.episode = UNKNOWN]]
UntrustedUrl ==
    [scheme |-> "plugin", addon |-> "plugin.video.other",
     args |-> [NoArgs EXCEPT !.tmdb_id = "77", !.player = "other",
                             !.season = "7", !.episode = "8"]]
UntrustedMovieUrl ==
    [scheme |-> "plugin", addon |-> "plugin.video.other",
     args |-> [NoArgs EXCEPT !.tmdb_id = "88", !.tmdb_type = "movie"]]

\* utils.parse_url: the addon id, the path and the query parameters
parse_url(url) == <<url.addon, "", url.args>>

\* utils.get_int over a text: the number it holds, else the default
get_int_txt(value, default) ==
    IF value \in {"", UNKNOWN} THEN default ELSE value

\* what the host reports for the playing episode and movie
HostEpisode ==
    [id |-> 1, type |-> "episode", playcount |-> 0, group |-> "showA",
     set |-> "", setid |-> UNDEFINED, title |-> "Pilot", showtitle |-> "A",
     tvshowid |-> 10, episodeid |-> 1, season |-> "1", episode |-> "2",
     player |-> "", tmdb_id |-> "", mediapath |-> NoUrl, file |-> FileUrl]

HostMovie ==
    [id |-> 3, type |-> "movie", playcount |-> 0, group |-> "setB",
     set |-> "", setid |-> UNDEFINED, title |-> "B", showtitle |-> "",
     tvshowid |-> UNDEFINED, episodeid |-> UNDEFINED,
     season |-> UNDEFINED_TXT, episode |-> UNDEFINED_TXT,
     player |-> "", tmdb_id |-> "", mediapath |-> NoUrl, file |-> FileUrl]

EpisodePaths ==
    { <<NoUrl, FileUrl>>, <<UntrustedUrl, FileUrl>>, <<TrustedUrl, FileUrl>>,
      <<TrustedUrl, UntrustedUrl>>, <<UntrustedUrl, TrustedUrl>>,
      <<OwnUrl, TrustedUrl>>, <<TrustedUrl, TrustedUrl>>,
      <<NoUrl, UntrustedUrl>> }

HostEpisodes ==
    { [HostEpisode EXCEPT !.mediapath = path[1], !.file = path[2],
                          !.tvshowid = show, !.showtitle = title,
                          !.episodeid = id, !.season = season] :
        path \in EpisodePaths, show \in {10, UNDEFINED},
        title \in {"A", ""}, id \in {1, UNDEFINED},
        season \in {"1", UNDEFINED_TXT} }

HostMovies ==
    { [HostMovie EXCEPT !.mediapath = path, !.set = st[1], !.setid = st[2],
                        !.title = title, !.type = type] :
        path \in {NoUrl, UntrustedMovieUrl},
        st \in {<<"", UNDEFINED>>, <<"setB", 4>>},
        title \in {"B", ""},
        type \in {"movie", UNKNOWN} }

\* play_info['item'] of the player notification
PlayItems ==
    { [has_id |-> has_id, showtitle |-> title, season |-> "1",
       episode |-> "2"] :
        has_id \in BOOLEAN, title \in {"A", ""} }

\* what the call is given: the notification item, the host's answer for the
\* playing video, the library's answers, whether TMDb Helper is installed
\* and what it would answer
Givens ==
    { [item |-> item, video |-> video, tvshowid |-> show,
       episode_info |-> info, installed |-> installed,
       tmdb_found |-> found] :
        item \in PlayItems,
        video \in {None} \cup {Some(v) : v \in HostEpisodes \cup HostMovies},
        show \in {10, UNDEFINED},
        info \in BOOLEAN,
        installed \in BOOLEAN,
        found \in BOOLEAN }

\* a returned value, or an exception that leaves the method
Returned(video, queried) ==
    [raised |-> FALSE, video |-> video, queried |-> queried]
Raised(queried) == [raised |-> TRUE, video |-> None, queried |-> queried]

\* tmdb_helper.TMDb(): without TMDb Helper the class derives from object
\* and its __init__ passes api_key on to object.__init__, which raises
TMDb_raises(g) == ~g.installed

\* UpNextState._get_tmdb_movie_now_playing
get_tmdb_movie_now_playing(g, current_video, tmdb_id, queried) ==
    IF ~SETTINGS.import_tmdbhelper
    THEN Returned(None, queried)
    ELSE IF ~g.tmdb_found
    THEN Returned(None, queried \cup {"tmdb.get_item_details"})
    ELSE Returned(Some([current_video EXCEPT !.type = "movie",
                                             !.tmdb_id = tmdb_id]),
                  queried \cup {"tmdb.get_item_details",
                                "tmdb.get_next_movie", "send_signal"})

\* UpNextState._get_tmdb_now_playing: it signals and returns None
get_tmdb_now_playing(g, current_video, queried) ==
    IF ~SETTINGS.import_tmdbhelper
    THEN Returned(None, queried)
    ELSE IF current_video.tmdb_id = "" /\ TMDb_raises(g)
    THEN Raised(queried \cup {"tmdb.TMDb"})
    ELSE Returned(None,
                  queried \cup {"tmdb.get_item_details",
                                "tmdb.get_next_episodes"}
                          \cup (IF current_video.tmdb_id = ""
                                THEN {"tmdb.TMDb", "tmdb.get_tmdb_id"}
                                ELSE {})
                          \cup (IF g.tmdb_found THEN {"send_signal"}
                                                ELSE {}))

\* _get_library_now_playing: the effective media path of the video
EffectivePath(current_video) ==
    IF current_video.mediapath.scheme # "" THEN current_video.mediapath
    ELSE current_video.file

\* _get_library_now_playing: the media type, with the hint of a plugin URL
VideoType(current_video) ==
    LET url == EffectivePath(current_video)
        tmdb_type == parse_url(url)[3].tmdb_type
    IN IF /\ url.scheme = "plugin"
          /\ current_video.type \in {UNKNOWN, ""}
          /\ tmdb_type # ""
       THEN IF tmdb_type = "movie" THEN "movie" ELSE "episode"
       ELSE current_video.type

\* _get_library_now_playing, movie
LibraryMovie(g, current_video, queried) ==
    LET url == EffectivePath(current_video)
        url_tmdb_id == IF url.scheme = "plugin"
                       THEN parse_url(url)[3].tmdb_id ELSE ""
    IN IF current_video.set # "" /\ current_video.setid > 0
       THEN Returned(Some(current_video), queried)
       ELSE IF ~SETTINGS.enable_tmdbhelper_fallback
       THEN Returned(None, queried)
       ELSE IF url_tmdb_id # ""
       THEN get_tmdb_movie_now_playing(g, current_video, url_tmdb_id, queried)
       ELSE IF current_video.title = ""
       THEN Returned(None, queried)
       ELSE IF TMDb_raises(g)
       THEN Raised(queried \cup {"tmdb.TMDb"})
       ELSE IF ~g.tmdb_found
       THEN Returned(None, queried \cup {"tmdb.TMDb", "tmdb.get_tmdb_id"})
       ELSE get_tmdb_movie_now_playing(
                g, current_video, "99",
                queried \cup {"tmdb.TMDb", "tmdb.get_tmdb_id"})

\* _get_library_now_playing, episode: fields the listitem lost are taken
\* from the notification item
Backfill(current_video, item) ==
    LET ignored == {UNDEFINED_TXT, UNKNOWN, ""}
    IN [current_video EXCEPT
          !.showtitle = IF @ \in ignored THEN item.showtitle ELSE @,
          !.season = IF @ \in ignored THEN item.season ELSE @,
          !.episode = IF @ \in ignored THEN item.episode ELSE @]

\* the query parameters that replace fields of the video
Replace(current_video, addon_args) ==
    LET ignored == {UNKNOWN, ""}
    IN [current_video EXCEPT
          !.player = IF addon_args.player \in ignored THEN @
                     ELSE addon_args.player,
          !.tmdb_id = IF addon_args.tmdb_id \in ignored THEN @
                      ELSE addon_args.tmdb_id,
          !.season = IF addon_args.season \in ignored THEN @
                     ELSE addon_args.season,
          !.episode = IF addon_args.episode \in ignored THEN @
                      ELSE addon_args.episode]

\* mutant of ScanStep: the parameters of an untrusted addon are taken
\* before the scan stops
ScanStep_UntrustedReplaces(st, url) ==
    IF st.stopped \/ Some(url) = st.plugin_url \/ url.scheme # "plugin"
    THEN st
    ELSE IF parse_url(url)[1] \in {ADDON_ID, TMDBH_ADDON_ID}
    THEN [plugin_url |-> Some(url), addon_id |-> None, stopped |-> FALSE,
          video |-> st.video]
    ELSE [plugin_url |-> Some(url), addon_id |-> Some(parse_url(url)[1]),
          stopped |-> TRUE, video |-> Replace(st.video, parse_url(url)[3])]

\* one round of the loop over mediapath and file
ScanStep(st, url) ==
    IF st.stopped \/ Some(url) = st.plugin_url \/ url.scheme # "plugin"
    THEN st
    ELSE IF parse_url(url)[1] \in {ADDON_ID, TMDBH_ADDON_ID}
    THEN [plugin_url |-> Some(url), addon_id |-> None, stopped |-> FALSE,
          video |-> Replace(st.video, parse_url(url)[3])]
    ELSE [plugin_url |-> Some(url), addon_id |-> Some(parse_url(url)[1]),
          stopped |-> TRUE, video |-> st.video]

\* the loop: mediapath, then file
Scan(current_video) ==
    ScanStep(ScanStep([plugin_url |-> None, addon_id |-> None,
                       stopped |-> FALSE, video |-> current_video],
                      current_video.mediapath),
             current_video.file)

\* _get_library_now_playing, episode
LibraryEpisode(g, video, queried) ==
    LET filled == Backfill(video, g.item)
        title == IF filled.showtitle # "" THEN filled.showtitle
                 ELSE g.item.showtitle
        own_season == get_int_txt(filled.season, UNDEFINED_TXT)
        own_episode == get_int_txt(filled.episode, UNDEFINED_TXT)
        season == IF own_season = UNDEFINED_TXT
                  THEN get_int_txt(g.item.season, own_season)
                  ELSE own_season
        episode == IF own_episode = UNDEFINED_TXT
                   THEN get_int_txt(g.item.episode, own_episode)
                   ELSE own_episode
        scan == Scan(filled)
        lookup == filled.tvshowid = UNDEFINED \/ IsSet(scan.plugin_url)
        tvshowid == IF lookup THEN g.tvshowid ELSE filled.tvshowid
        asked == IF lookup THEN queried \cup {"api.get_tvshowid"}
                 ELSE queried
        current_video == [scan.video EXCEPT !.tvshowid = tvshowid]
    IN IF title = "" \/ UNDEFINED_TXT \in {season, episode}
       THEN Returned(None, queried)
       ELSE IF tvshowid = UNDEFINED
       THEN IF SETTINGS.enable_tmdbhelper_fallback
            THEN get_tmdb_now_playing(g, scan.video, asked)
            ELSE Returned(None, asked)
       ELSE IF current_video.episodeid # UNDEFINED
       THEN Returned(Some(current_video), asked)
       ELSE IF ~g.episode_info
       THEN Returned(None, asked \cup {"api.get_episode_info"})
       ELSE Returned(Some([current_video EXCEPT !.episodeid = 1]),
                     asked \cup {"api.get_episode_info"})

\* UpNextState._get_library_now_playing
get_library_now_playing(g) ==
    LET queried == IF g.item.has_id THEN {"api.get_from_library"}
                   ELSE {"api.get_now_playing"}
    IN IF ~IsSet(g.video)
       THEN Returned(None, queried)
       ELSE IF VideoType(Val(g.video)) = "movie"
       THEN LibraryMovie(g, Val(g.video), queried)
       ELSE LibraryEpisode(g, Val(g.video), queried)

\* process_now_playing on the library branch, with the reconciliation in
\* it: an exception leaves the state as it was
process_library_now_playing ==
    LET r == get_library_now_playing(Val(last.given))
    IN /\ last.op = "notified"
       /\ IF r.raised
          THEN /\ last' = [last EXCEPT !.op = "process_now_playing",
                                       !.raised = TRUE,
                                       !.queried = r.queried,
                                       !.pre_item = Some(current_item)]
               /\ UNCHANGED <<SETTINGS, data, encoding, itemVars,
                               timingVars, trackVars>>
          ELSE /\ current_item' =
                     IF IsSet(r.video)
                     THEN create_item_details(Val(r.video), "library", None)
                     ELSE current_item
               /\ played_in_a_row' =
                     IF IsSet(r.video)
                     THEN NewPlayedInARow(
                              create_item_details(Val(r.video), "library",
                                                  None))
                     ELSE played_in_a_row
               /\ last' = [last EXCEPT !.op = "process_now_playing",
                                       !.found = r.video,
                                       !.queried = r.queried,
                                       !.result = NowPlayingResult(
                                                      current_item'),
                                       !.pre_played = played_in_a_row,
                                       !.pre_group = current_item.group_name,
                                       !.pre_item = Some(current_item)]
               /\ UNCHANGED <<SETTINGS, data, encoding, next_item,
                               shuffle_on, queued, timingVars, trackVars>>

\* the item playing before the notification
PriorItems ==
    { <<reset_item_details, 1>>,
      <<create_item_details(EpA1, "library", None), 1>>,
      <<create_item_details(EpA1, "library", None), 2>> }

ReconcileSettings ==
    { [DefaultSettings EXCEPT !.enable_tmdbhelper_fallback = fallback,
                              !.import_tmdbhelper = import] :
        fallback \in BOOLEAN, import \in BOOLEAN }

\* the player was notified of a playback. SETTINGS.import_tmdbhelper is on
\* only where TMDb Helper is installed.
InitReconcile ==
    /\ SETTINGS \in ReconcileSettings
    /\ data = None
    /\ encoding = Some("base64")
    /\ \E prior \in PriorItems :
          /\ current_item = prior[1]
          /\ played_in_a_row = prior[2]
    /\ next_item = None
    /\ shuffle_on = FALSE
    /\ queued = FALSE
    /\ filename = None
    /\ total_time = 0
    /\ popup_time = 0
    /\ popup_cue = FALSE
    /\ detect_time = Some(0)
    /\ starting = 0
    /\ tracking = FALSE
    /\ playing_next = FALSE
    /\ keep_playing = FALSE
    /\ \E g \in Givens :
          /\ SETTINGS.import_tmdbhelper => g.installed
          /\ last = [Did("notified") EXCEPT !.given = Some(g)]

NextReconcile == process_library_now_playing

SpecReconcile == InitReconcile /\ [][NextReconcile]_vars

----------------------------------------------------------------------------
\* Next and now-playing resolution: what the last call did

AfterNowPlaying == last.op = "process_now_playing"
AfterGetNext == last.op = "get_next"

\* C1: process_now_playing sets played_in_a_row to 1 when it resolves an
\* item whose group_name differs from that of the current item at the call,
\* and leaves it as it was when the group is the same or nothing resolves.
C1_PlayedInARowOnGroupChange ==
    AfterNowPlaying =>
        IF IsSet(last.found) /\ current_item.group_name # last.pre_group
        THEN played_in_a_row = 1
        ELSE played_in_a_row = last.pre_played

\* a count above 1 reset by an item of another group
C1_Witness ==
    /\ AfterNowPlaying
    /\ IsSet(last.found)
    /\ IsSet(last.pre_group)
    /\ current_item.group_name # last.pre_group
    /\ last.pre_played > 1
    /\ played_in_a_row = 1

\* C2: get_next consults one source, the plugin payload when the plugin type
\* is set, else the playlist when there is a next position and shuffle is
\* off, else the library, and no second source when the first yields nothing.
C2_OneSourceByPrecedence ==
    AfterGetNext =>
        LET plugin == TruthyInt(get_plugin_type(last.position))
            playlist == /\ ~plugin
                        /\ TruthyPosition(last.position)
                        /\ ~shuffle_on
            source == IF plugin
                      THEN PLUGIN_TYPES(Val(get_plugin_type(last.position)))
                      ELSE IF playlist THEN "playlist" ELSE "library"
        IN /\ last.queried = IF plugin THEN {"plugin"}
                              ELSE IF playlist THEN {"playlist"}
                              ELSE {"library"}
           /\ IsSet(last.found) =>
                  /\ IsSet(next_item)
                  /\ Val(next_item).source = Some(source)
                  /\ Val(next_item).details = Val(last.found)

\* a plugin payload without a next video, with a playlist position at hand:
\* only the plugin was consulted
C2_Witness ==
    /\ AfterGetNext
    /\ TruthyInt(get_plugin_type(last.position))
    /\ TruthyPosition(last.position)
    /\ ~shuffle_on
    /\ ~IsSet(last.found)
    /\ last.queried = {"plugin"}

\* C3: get_next returns None whenever the source it consulted found no next
\* item, whatever next_item held before.
C3_NoneWhenNothingFound ==
    (AfterGetNext /\ ~IsSet(last.found)) => ~IsSet(last.result)

----------------------------------------------------------------------------
\* Popup timing: the sources of set_popup_time as the last call saw them

TimingTotal == AdjustedTotal(total_time)

ChapterResult ==
    get_final_chapter_time(last.chapters, TimingTotal,
                           SETTINGS.detect_chapters_threshold)

ChapterWins == SETTINGS.detect_chapters /\ TruthyInt(ChapterResult)

PluginActive == TruthyInt(get_plugin_type(None))

PayloadDuration == get_int(Val(data).notification_time, 0)
PayloadOffset == get_int(Val(data).notification_offset, 0)

DurationValid ==
    POPUP_MIN_DURATION <= PayloadDuration /\ PayloadDuration < TimingTotal

InWindow(t) == 0 < t /\ t <= TimingTotal - POPUP_MIN_DURATION

CueForcedOn == SETTINGS.sim_cue = SETTING_ON
CueNotForcedOff == SETTINGS.sim_cue # SETTING_OFF

AfterSetPopupTime == last.op = "set_popup_time"
AfterDetected == last.op = "set_detected_popup_time"

C5_PopupTimeInRange ==
    (AfterSetPopupTime \/ AfterDetected) =>
        (0 <= popup_time /\ popup_time <= total_time)

\* C6, as stated: in every reachable state detect_time is set only if
\* popup_cue is false and end-credit detection is enabled.
C6_DetectOnlyWithoutCue ==
    IsSet(detect_time) => (~popup_cue /\ SETTINGS.detect_enabled)

\* C6, amended: the same in every state that set_popup_time or
\* set_detected_popup_time leaves.
C6_DetectOnlyWithoutCueAfterTiming ==
    (AfterSetPopupTime \/ AfterDetected) =>
        (IsSet(detect_time) => (~popup_cue /\ SETTINGS.detect_enabled))

\* a timing call that leaves a detection time: no cue, detection enabled
C6_Witness ==
    /\ AfterSetPopupTime
    /\ IsSet(detect_time)
    /\ Val(detect_time) > 0
    /\ ~popup_cue
    /\ SETTINGS.detect_enabled

\* C7: a non-zero detected time becomes the popup time whatever the plugin
\* payload and the settings say, with the cue on unless sim_cue forces it off.
C7_DetectedOverrides ==
    (AfterDetected /\ TruthyInt(last.detected)) =>
        /\ popup_time = Val(last.detected)
        /\ popup_cue = CueNotForcedOff

\* a detected time stored over a payload whose own timing is valid
C7_Witness ==
    /\ AfterDetected
    /\ last.detected = Some(40)
    /\ popup_time = 40
    /\ popup_cue
    /\ PluginActive /\ InWindow(PluginCandidate(TimingTotal))
    /\ PluginCandidate(TimingTotal) # 40

\* C8: set_detected_popup_time with no or a zero detected time, right after
\* set_popup_time, leaves the popup time and cue of the ranked resolution.
C8_AbsentDetectedKeepsRanked ==
    [][ ( /\ last.op = "set_popup_time"
          /\ last'.op = "set_detected_popup_time"
          /\ ~TruthyInt(last'.detected) )
        => (popup_time' = popup_time /\ popup_cue' = popup_cue) ]_vars

\* C9, as stated: with a non-zero offset and a valid duration in the
\* payload the plugin's popup time is the offset.
C9_OffsetPreferred ==
    ( /\ AfterSetPopupTime /\ ~ChapterWins /\ PluginActive
      /\ PayloadOffset # 0 /\ DurationValid
      /\ InWindow(PayloadOffset) )
    => popup_time = PayloadOffset

\* C9, amended: a valid duration is preferred, the popup time is the total
\* less the duration; the offset is used when the duration is not valid.
C9_DurationPreferred ==
    (AfterSetPopupTime /\ ~ChapterWins /\ PluginActive) =>
        LET candidate == IF DurationValid
                         THEN TimingTotal - PayloadDuration
                         ELSE PayloadOffset
        IN InWindow(candidate) => popup_time = candidate

\* both an offset and a valid duration: the duration decides
C9_Witness ==
    /\ AfterSetPopupTime /\ ~ChapterWins /\ PluginActive
    /\ PayloadOffset # 0 /\ InWindow(PayloadOffset) /\ DurationValid
    /\ popup_time = TimingTotal - PayloadDuration
    /\ popup_time # PayloadOffset

\* C10: the plugin's popup time is accepted only within
\* (0, total - POPUP_MIN_DURATION], then with the cue on unless forced off;
\* a rejected one leaves popup time and cue to the configured fallback.
C10_PluginWindow ==
    (AfterSetPopupTime /\ ~ChapterWins /\ PluginActive) =>
        LET candidate == PluginCandidate(TimingTotal)
        IN IF 0 < candidate /\ candidate <= TimingTotal - POPUP_MIN_DURATION
           THEN popup_time = candidate /\ popup_cue = CueNotForcedOff
           ELSE /\ popup_time = FallbackTime(TimingTotal)
                /\ popup_cue = CueForcedOn

\* a plugin time too close to the end is dropped for the fallback
C10_Witness ==
    /\ AfterSetPopupTime /\ ~ChapterWins /\ PluginActive
    /\ PluginCandidate(TimingTotal) > TimingTotal - POPUP_MIN_DURATION
    /\ PluginCandidate(TimingTotal) <= TimingTotal
    /\ popup_time = FallbackTime(TimingTotal)
    /\ ~popup_cue /\ CueNotForcedOff

\* the configured fallback decided the last set_popup_time
FallbackUsed ==
    /\ AfterSetPopupTime
    /\ ~ChapterWins
    /\ ~(PluginActive /\ InWindow(PluginCandidate(TimingTotal)))

\* the table value at the largest key strictly below t, key 0 if none
TableDuration(t) ==
    LET keys == {k \in DOMAIN SETTINGS.popup_durations : k < t}
    IN SETTINGS.popup_durations[IF keys = {} THEN 0 ELSE Max(keys)]

ExampleTable == (0 :> 0) @@ (300 :> 60) @@ (1200 :> 180)

\* C11, as stated: the fallback takes D from the table by the total time
\* passed to set_popup_time and stores total_time - D, or
\* total_time - POPUP_MIN_DURATION when D is not in
\* [POPUP_MIN_DURATION, total_time); the cue is on only if forced on.
C11_FallbackFromTotal ==
    FallbackUsed =>
        LET D == TableDuration(total_time)
        IN /\ popup_time =
                 IF POPUP_MIN_DURATION <= D /\ D < total_time
                 THEN total_time - D
                 ELSE total_time - POPUP_MIN_DURATION
           /\ popup_cue = CueForcedOn

\* C11, amended: the same with the total time less the 1 s that enable_queue
\* takes off, in the choice of D, in the bound on D and in the popup time.
C11_FallbackFromAdjustedTotal ==
    FallbackUsed =>
        LET T == IF SETTINGS.enable_queue THEN total_time - 1 ELSE total_time
            D == TableDuration(T)
        IN /\ popup_time =
                 IF POPUP_MIN_DURATION <= D /\ D < T
                 THEN T - D
                 ELSE T - POPUP_MIN_DURATION
           /\ popup_cue = CueForcedOn
           /\ ( /\ SETTINGS.popup_durations = ExampleTable
                /\ total_time = 1800
                /\ ~SETTINGS.enable_queue ) => popup_time = 1620

\* the table {0: 0, 300: 60, 1200: 180} at 1800 s gives 1620 s, cue off
C11_Witness ==
    /\ FallbackUsed
    /\ SETTINGS.popup_durations = ExampleTable
    /\ total_time = 1800
    /\ ~SETTINGS.enable_queue
    /\ popup_time = 1620
    /\ ~popup_cue

\* the chapters of the last set_popup_time that start more than 10 s
\* before the end
RemainingChapters ==
    { i \in 1..Len(last.chapters) :
        /\ TimingTotal > 10
        /\ last.chapters[i] * TimingTotal < (TimingTotal - 10) * 100 }

\* C13: with fewer than 2 chapters left once those within 10 s of the end
\* are dropped, chapter detection has no result whatever the chapters and
\* the threshold, and set_popup_time takes plugin timing or the fallback.
C13_FewChaptersNoResult ==
    (AfterSetPopupTime /\ Cardinality(RemainingChapters) < 2) =>
        /\ ChapterResult = None
        /\ IF PluginActive /\ InWindow(PluginCandidate(TimingTotal))
           THEN /\ popup_time = PluginCandidate(TimingTotal)
                /\ popup_cue = CueNotForcedOff
           ELSE /\ popup_time = FallbackTime(TimingTotal)
                /\ popup_cue = CueForcedOn

\* two chapters, one of them within 10 s of the end, the other past the
\* threshold: detection is enabled and the fallback decides
C13_Witness ==
    /\ AfterSetPopupTime
    /\ SETTINGS.detect_chapters
    /\ Len(last.chapters) = 2
    /\ Cardinality(RemainingChapters) = 1
    /\ \A i \in RemainingChapters :
           last.chapters[i] >= SETTINGS.detect_chapters_threshold
    /\ ~PluginActive
    /\ popup_time = FallbackTime(TimingTotal)

AfterChapters == last.op = "get_final_chapter_time"

\* indices of the chapters that start more than 10 s before the end
Remaining ==
    { i \in 1..Len(last.chapters) :
        /\ last.total > 10
        /\ last.chapters[i] * last.total < (last.total - 10) * 100 }

\* remaining chapters at or past 70%
RemainingLate == { i \in Remaining : last.chapters[i] >= 70 }

ChapterSeconds(i) == Some((last.chapters[i] * last.total) \div 100)

\* the rule of C12 over the remaining chapters
ChapterRule ==
    IF /\ Cardinality(RemainingLate) = 1
       /\ \A i \in RemainingLate : last.chapters[i] >= 90
    THEN ChapterSeconds(CHOOSE i \in RemainingLate : TRUE)
    ELSE IF Remaining # {} /\ last.chapters[Max(Remaining)] >= last.threshold
         THEN ChapterSeconds(Max(Remaining))
         ELSE None

\* C12, as stated: get_final_chapter_time gives the single remaining
\* chapter at or past 70% if it is at or past 90%, otherwise the last
\* remaining chapter if it is at or past the threshold, otherwise nothing.
C12_ChapterRule == AfterChapters => last.result = ChapterRule

\* C12, amended: the rule applies when the player reports at least 2
\* chapters and at least 2 remain; with fewer there is no result.
\* Chapters [50, 92] with total_time 1200 give 1104.
C12_ChapterRuleFromTwo ==
    AfterChapters =>
        /\ last.result =
              IF Len(last.chapters) >= 2 /\ Cardinality(Remaining) >= 2
              THEN ChapterRule
              ELSE None
        /\ (last.chapters = <<50, 92>> /\ last.total = 1200)
              => last.result = Some(1104)

\* [50, 92] at 1200 s with the threshold above 92: the single late chapter
\* is taken, 1104 s
C12_Witness ==
    /\ AfterChapters
    /\ last.chapters = <<50, 92>>
    /\ last.total = 1200
    /\ last.threshold = 95
    /\ last.result = Some(1104)

\* C14: a process_now_playing call that resolves an item stores its
\* normalized descriptor as current_item and returns it; a call that
\* resolves nothing leaves current_item, next_item and played_in_a_row as
\* they were and returns the current_item it found.
C14_ReplaceOrKeep ==
    [][ last'.op = "process_now_playing" =>
          IF IsSet(last'.found)
          THEN /\ IsSet(current_item'.source)
               /\ current_item' =
                     create_item_details(Val(last'.found),
                                         Val(current_item'.source),
                                         last'.position)
               /\ last'.result = Some(current_item')
               /\ next_item' = next_item
          ELSE /\ UNCHANGED <<current_item, next_item, played_in_a_row>>
               /\ last'.result = Some(current_item) ]_vars

\* an item was resolved over a different current item and returned
C14_Witness ==
    /\ AfterNowPlaying
    /\ last.found = Some(MovB)
    /\ last.pre_group = Some("showA")
    /\ current_item.details = MovB
    /\ last.result = Some(current_item)

\* the payload's current_video, if process_now_playing can read one
PayloadCurrentVideo ==
    IF IsSet(data) /\ ~Val(data).empty THEN Val(data).current_video ELSE None

\* C15: process_now_playing takes the plugin branch when plugin_type is
\* set (the payload's current_video, else the live now-playing query), else
\* the playlist at a known playlist position, else the library; it asks no
\* collaborator of another branch, and the source stored with a resolved
\* item is the plugin's name, 'playlist' or 'library' accordingly.
C15_NowPlayingPrecedence ==
    AfterNowPlaying =>
        IF TruthyInt(last.plugin_type)
        THEN /\ last.queried \subseteq {"now_playing"}
             /\ IsSet(PayloadCurrentVideo) =>
                    /\ last.queried = {}
                    /\ last.found = PayloadCurrentVideo
             /\ IsSet(last.found) =>
                    current_item.source =
                        Some(PLUGIN_TYPES(Val(last.plugin_type)))
        ELSE IF IsSet(last.position) /\ Val(last.position) # 0
        THEN /\ last.queried = {"playlist"}
             /\ IsSet(last.found) => current_item.source = Some("playlist")
        ELSE /\ last.queried = {"library"}
             /\ IsSet(last.found) => current_item.source = Some("library")

\* plugin_type set and a playlist position known: the payload is taken,
\* the playlist is not asked, and the item carries the plugin's name
C15_Witness ==
    /\ AfterNowPlaying
    /\ TruthyInt(last.plugin_type)
    /\ IsSet(last.position)
    /\ IsSet(PayloadCurrentVideo)
    /\ last.found = PayloadCurrentVideo
    /\ last.queried = {}
    /\ current_item.source = Some(PLUGIN_TYPES(Val(last.plugin_type)))

\* the stored payload names a next_video that has been played
WatchedPluginNext ==
    /\ IsSet(data)
    /\ ~Val(data).empty
    /\ IsSet(Val(data).next_video)
    /\ Val(Val(data).next_video).playcount > 0

\* C17: with unwatched_only on and a played next_video in the plugin
\* payload, a get_next call finds nothing, stores nothing in next_item and
\* asks neither the playlist nor the library.
C17_WatchedPluginNextDiscarded ==
    [][ (last'.op = "get_next" /\ SETTINGS.unwatched_only
            /\ WatchedPluginNext) =>
          /\ next_item' = next_item
          /\ last'.found = None
          /\ last'.queried = {"plugin"} ]_vars

\* get_next met a played next_video under unwatched_only and stored
\* nothing
C17_Witness ==
    /\ AfterGetNext
    /\ SETTINGS.unwatched_only
    /\ WatchedPluginNext
    /\ IsSet(last.position)
    /\ last.found = None
    /\ next_item = None

\* C19: reset_queue(on_start) with an item queued leaves queued false by
\* calling the collaborator, and with on_start adds exactly 1 to
\* played_in_a_row before that call (without on_start it adds nothing);
\* with nothing queued it changes no state and calls nobody.
C19_ResetQueue ==
    [][ last'.op = "reset_queue" =>
          IF queued
          THEN /\ ~queued'
               /\ last'.queried = {"api.reset_queue"}
               /\ played_in_a_row' = IF last'.on_start
                                     THEN played_in_a_row + 1
                                     ELSE played_in_a_row
               /\ last'.at_call = Some(played_in_a_row')
               /\ UNCHANGED <<SETTINGS, data, encoding, current_item,
                               next_item, shuffle_on, timingVars, trackVars>>
          ELSE /\ last'.queried = {}
               /\ UNCHANGED <<SETTINGS, data, encoding, itemVars,
                               timingVars, trackVars>> ]_vars

\* a queued item was reset at playback start: counted once, then cleared
C19_Witness ==
    /\ last.op = "reset_queue"
    /\ last.on_start
    /\ last.queried = {"api.reset_queue"}
    /\ ~queued
    /\ played_in_a_row = last.pre_played + 1
    /\ last.at_call = Some(played_in_a_row)

\* C18: get_next sets played_in_a_row to played_limit exactly when it took
\* the library branch, found a next item, and the item is a movie or
\* (shuffle is off and SPECIALS, the next item's season and the current
\* item's season are three distinct values); otherwise it leaves
\* played_in_a_row as it was.
C18_StillWatchingTrigger ==
    [][ last'.op = "get_next" =>
          played_in_a_row' =
            IF /\ last'.queried = {"library"}
               /\ IsSet(last'.found)
               /\ \/ Val(last'.found).type = "movie"
                  \/ /\ ~shuffle_on
                     /\ Val(last'.found).season # SPECIALS
                     /\ current_item.details.season # SPECIALS
                     /\ Val(last'.found).season
                            # current_item.details.season
            THEN SETTINGS.played_limit
            ELSE played_in_a_row ]_vars

\* the library answered with an episode of another season, shuffle off,
\* and the count went from 1 to played_limit
C18_Witness ==
    /\ AfterGetNext
    /\ last.queried = {"library"}
    /\ last.found = Some(EpA2)
    /\ current_item.details = EpA1
    /\ ~shuffle_on
    /\ last.pre_played = 1
    /\ played_in_a_row = SETTINGS.played_limit
    /\ played_in_a_row # last.pre_played

AfterPluginType == last.op = "get_plugin_type"

\* code b is part of the composite v
HasCode(v, b) == (v \div b) % 2 = 1

\* the composite tells the four categories apart: each code is in it
\* exactly when its category applies
CategoriesTold ==
    IsSet(last.plugin_type) =>
        LET v == Val(last.plugin_type)
            d == Val(data)
            playlist_next == IsSet(last.position) /\ Val(last.position) # 0
        IN /\ v > 0
           /\ HasCode(v, PLUGIN_DIRECT) <=> d.play_direct
           /\ HasCode(v, PLUGIN_PLAYLIST) <=>
                  (~d.play_direct /\ playlist_next)
           /\ HasCode(v, PLUGIN_PLAY_URL) <=> d.play_url
           /\ HasCode(v, PLUGIN_PLAY_INFO) <=> (~d.play_url /\ d.play_info)

\* C16, as stated: get_plugin_type returns None exactly when no payload is
\* stored (never pushed, or cleared by an empty push), whatever
\* playlist_next is, and otherwise a set value that tells direct,
\* playlist-next, url-based and info-based apart.
C16_UnsetIffNoPayload ==
    AfterPluginType =>
        /\ last.plugin_type = None <=> data = None
        /\ CategoriesTold

\* C16, amended: None exactly when no payload is stored or the stored
\* payload is an empty mapping; a non-empty payload always gets a set,
\* non-zero value that tells the four categories apart.
C16_UnsetIffNoOrEmptyPayload ==
    AfterPluginType =>
        /\ last.plugin_type = None <=> (data = None \/ Val(data).empty)
        /\ CategoriesTold

\* a payload asking for direct play with play_info, classified while a
\* playlist position is known
C16_Witness ==
    /\ AfterPluginType
    /\ IsSet(data)
    /\ Val(data).play_direct /\ Val(data).play_info /\ ~Val(data).play_url
    /\ last.position = Some(1)
    /\ last.plugin_type =
          Some(PLUGIN_DATA_ERROR + PLUGIN_DIRECT + PLUGIN_PLAY_INFO)

\* C20: stop_tracking leaves tracking false and the filename as it was, so
\* after start_tracking(f) then stop_tracking the filename is still f;
\* reset_tracking leaves tracking false and the filename unset from any
\* state.
C20_Tracking ==
    [][ /\ last'.op = "start_tracking" =>
              (tracking' /\ filename' = last'.file)
        /\ last'.op = "stop_tracking" =>
              (~tracking' /\ filename' = filename)
        /\ (last.op = "start_tracking" /\ last'.op = "stop_tracking") =>
              (~tracking' /\ filename' = last.file /\ IsSet(filename'))
        /\ last'.op = "reset_tracking" =>
              (~tracking' /\ filename' = None) ]_vars

\* tracking was started on a file and stopped: the filename is kept
C20_Witness ==
    /\ last.op = "stop_tracking"
    /\ ~tracking
    /\ filename = Some("a.mkv")

\* C21: one file is tracked at a time. start_tracking leaves tracking on
\* with its argument as the filename, whatever was tracked before; any
\* other step that leaves tracking on found it on and keeps the filename,
\* so while tracking is on the filename is the argument of the latest
\* start_tracking; only start_tracking, reset_tracking and reset change
\* the filename.
C21_OneTrackedFile ==
    [][ /\ last'.op = "start_tracking" =>
              (tracking' /\ filename' = last'.file /\ IsSet(filename'))
        /\ (tracking' /\ last'.op # "start_tracking") =>
              (tracking /\ filename' = filename)
        /\ filename' # filename =>
              last'.op \in {"start_tracking", "reset_tracking", "reset"}
      ]_vars

\* start_tracking on a second file while a first one was recorded
C21_Witness ==
    /\ last.op = "start_tracking"
    /\ last.pre_file = Some("a.mkv")
    /\ last.file = Some("b.mkv")
    /\ tracking
    /\ filename = Some("b.mkv")

\* C22: after reset every field has the value of a freshly created state.
C22_ResetIsFresh ==
    last.op = "reset" =>
        /\ data = None
        /\ encoding = Some("base64")
        /\ current_item = reset_item_details
        /\ filename = None
        /\ total_time = 0
        /\ next_item = None
        /\ popup_time = 0
        /\ ~popup_cue
        /\ detect_time = Some(0)
        /\ ~shuffle_on
        /\ starting = 0
        /\ ~tracking
        /\ played_in_a_row = 1
        /\ ~queued
        /\ ~playing_next
        /\ ~keep_playing
        /\ InitState

\* reset from a state whose play count had been raised
C22_Witness ==
    /\ last.op = "reset"
    /\ last.pre_played = 2
    /\ played_in_a_row = 1
    /\ data = None
    /\ ~tracking

\* C28: reset_item makes next_item, if set, the current_item, and otherwise
\* stores the reset descriptor; next_item is unset afterwards and nothing
\* else changes; a get_next right after it that finds nothing returns the
\* unset marker.
C28_RollOver ==
    [][ /\ last'.op = "reset_item" =>
              /\ current_item' = IF IsSet(next_item) THEN Val(next_item)
                                  ELSE reset_item_details
              /\ next_item' = None
              /\ UNCHANGED <<SETTINGS, data, encoding, shuffle_on,
                              played_in_a_row, queued, timingVars, trackVars>>
        /\ (last.op = "reset_item" /\ last'.op = "get_next"
               /\ last'.found = None) => last'.result = None
      ]_vars

\* a roll-over onto the stored next item, with the play count raised
C28_Witness ==
    /\ last.op = "reset_item"
    /\ IsSet(last.pre_next)
    /\ current_item = Val(last.pre_next)
    /\ next_item = None
    /\ played_in_a_row = 2

\* popup_time - detect_period * total_time / 3600, in units of 1/3600 s
DetectStart == DetectUnit * popup_time - SETTINGS.detect_period * total_time

\* C25: after set_popup_time or set_detected_popup_time, detect_time is
\* unset if popup_cue is true or detect_enabled is off, and otherwise is
\* max(0, popup_time - detect_period * total_time / 3600) over the stored
\* total_time, so that a set detect_time lies between 0 and popup_time.
C25_DetectTimeWithinPopup ==
    (AfterSetPopupTime \/ AfterDetected) =>
        IF popup_cue \/ ~SETTINGS.detect_enabled
        THEN detect_time = None
        ELSE /\ detect_time = Some(IF DetectStart > 0 THEN DetectStart ELSE 0)
             /\ 0 <= Val(detect_time)
             /\ Val(detect_time) <= DetectUnit * popup_time

\* C26: the value get_plugin_type returns never holds both the direct and
\* the playlist-next component (play_direct goes first) nor both the
\* play-url and the play-info component (play_url goes first), and the
\* call changes no field of the state.
C26_ExclusiveComponents ==
    [][ last'.op = "get_plugin_type" =>
          /\ UNCHANGED <<SETTINGS, data, encoding, itemVars, timingVars,
                          trackVars>>
          /\ IsSet(last'.plugin_type) =>
                LET v == Val(last'.plugin_type)
                    d == Val(data)
                IN /\ ~(HasCode(v, PLUGIN_DIRECT)
                          /\ HasCode(v, PLUGIN_PLAYLIST))
                   /\ ~(HasCode(v, PLUGIN_PLAY_URL)
                          /\ HasCode(v, PLUGIN_PLAY_INFO))
                   /\ d.play_direct =>
                         (HasCode(v, PLUGIN_DIRECT)
                            /\ ~HasCode(v, PLUGIN_PLAYLIST))
                   /\ d.play_url =>
                         (HasCode(v, PLUGIN_PLAY_URL)
                            /\ ~HasCode(v, PLUGIN_PLAY_INFO)) ]_vars

\* a payload with all three play flags, classified with a playlist
\* position known: direct and play-url only
C26_Witness ==
    /\ AfterPluginType
    /\ IsSet(data)
    /\ Val(data).play_direct /\ Val(data).play_url /\ Val(data).play_info
    /\ last.position = Some(1)
    /\ last.plugin_type =
          Some(PLUGIN_DATA_ERROR + PLUGIN_DIRECT + PLUGIN_PLAY_URL)

\* what set_popup_time(t) would store with chapters ch, had the cue point
\* been prior_cue before the call
OutcomeFrom(prior_cue, t, ch) ==
    LET total == IF SETTINGS.enable_queue THEN t - 1 ELSE t
        chapter_time ==
            get_final_chapter_time(ch, total,
                                   SETTINGS.detect_chapters_threshold)
        s0 == IF SETTINGS.detect_chapters /\ TruthyInt(chapter_time)
              THEN [popup_time |-> Val(chapter_time),
                    popup_cue |-> (SETTINGS.sim_cue = SETTING_ON)]
              ELSE [popup_time |-> 0, popup_cue |-> prior_cue]
        s == FallbackStage(PluginStage(s0, total), total)
    IN <<s.popup_time, s.popup_cue,
         set_detect_time(s.popup_time, s.popup_cue, t)>>

\* C27: what set_popup_time stores as popup_time, popup_cue and
\* detect_time is fixed by total_time, the plugin data, the chapters and the
\* configuration: the call gives the same triple from the state it ran in
\* and from a state with the other value of popup_cue, and the previous
\* popup_time and detect_time are never read.
C27_TimingDeterministic ==
    [][ last'.op = "set_popup_time" =>
          \A prior_cue \in BOOLEAN :
              <<popup_time', popup_cue', detect_time'>> =
                  OutcomeFrom(prior_cue, total_time', last'.chapters) ]_vars

\* the cue point was on before the call and is off after it, with a
\* detect_time set
C27_Witness ==
    /\ AfterSetPopupTime
    /\ last.pre_cue
    /\ ~popup_cue
    /\ IsSet(detect_time)
    /\ popup_time > 0


----------------------------------------------------------------------------
\* The scan of mediapath and file, read off the call that was given

ReplacedParams == {"player", "tmdb_id", "season", "episode"}
TrustedAddons == {ADDON_ID, TMDBH_ADDON_ID}

IsPluginUrl(url) == url.scheme = "plugin"
IsTrustedUrl(url) == IsPluginUrl(url) /\ url.addon \in TrustedAddons
IsUntrustedUrl(url) == IsPluginUrl(url) /\ url.addon \notin TrustedAddons
Supplies(url, param) == url.args[param] \notin {"", UNKNOWN}

\* the first plugin URL of mediapath, file; NoUrl when there is none
FirstPluginUrl(video) ==
    IF IsPluginUrl(video.mediapath) THEN video.mediapath
    ELSE IF IsPluginUrl(video.file) THEN video.file
    ELSE NoUrl

\* an episode was reconciled from the host's answer alone: the show and the
\* episode id were at hand, so the returned video is the scanned one
EpisodeReconciled ==
    /\ last.op = "process_now_playing"
    /\ IsSet(last.given)
    /\ IsSet(Val(last.given).video)
    /\ VideoType(Val(Val(last.given).video)) # "movie"
    /\ IsSet(last.found)
    /\ "api.get_episode_info" \notin last.queried

\* the video before the scan, the video found
GivenVideo == Backfill(Val(Val(last.given).video), Val(last.given).item)
FoundVideo == Val(last.found)

\* what the code leaves in a field after the scan
ScannedValue(video, param) ==
    LET m == video.mediapath
        f == video.file
    IN IF IsTrustedUrl(m) /\ IsTrustedUrl(f) /\ f # m /\ Supplies(f, param)
       THEN f.args[param]
       ELSE IF IsTrustedUrl(m) /\ Supplies(m, param)
       THEN m.args[param]
       ELSE IF ~IsPluginUrl(m) /\ IsTrustedUrl(f) /\ Supplies(f, param)
       THEN f.args[param]
       ELSE video[param]

\* C24 (as stated): when the first distinct plugin URL of mediapath, file
\* belongs to an addon that is not trusted, its non-placeholder player,
\* tmdb_id, season and episode replace the fields of the current video and
\* the scan stops; URLs of the trusted addons replace nothing.
C24_UntrustedOverrides ==
    EpisodeReconciled =>
        LET first == FirstPluginUrl(GivenVideo)
        IN \A param \in ReplacedParams :
              FoundVideo[param] =
                  IF IsUntrustedUrl(first) /\ Supplies(first, param)
                  THEN first.args[param]
                  ELSE GivenVideo[param]

\* C24 (amended): the replacements come from the URLs of the two trusted
\* addons, and the scan goes on to the next field after one; the first
\* distinct plugin URL of an addon that is not trusted stops the scan and
\* replaces nothing.
C24_TrustedOverrides ==
    EpisodeReconciled =>
        /\ \A param \in ReplacedParams :
              FoundVideo[param] = ScannedValue(GivenVideo, param)
        /\ IsUntrustedUrl(FirstPluginUrl(GivenVideo)) =>
              \A param \in ReplacedParams :
                  FoundVideo[param] = GivenVideo[param]

\* an untrusted URL that supplies parameters came first and replaced
\* nothing, or a trusted URL came first and replaced the season
C24_Witness ==
    /\ EpisodeReconciled
    /\ \/ /\ GivenVideo.mediapath = UntrustedUrl
          /\ GivenVideo.file = TrustedUrl
          /\ FoundVideo.season = GivenVideo.season
          /\ FoundVideo.tmdb_id = ""
       \/ /\ GivenVideo.mediapath = TrustedUrl
          /\ GivenVideo.file = UntrustedUrl
          /\ FoundVideo.season = "3"
          /\ FoundVideo.tmdb_id = "55"

\* the call reached a lookup of the external metadata: a movie without a
\* valid set id, or an episode whose show the library does not hold
ExternalLookupReached ==
    /\ last.op = "process_now_playing"
    /\ IsSet(last.given)
    /\ IsSet(Val(last.given).video)
    /\ LET g == Val(last.given)
           video == Val(g.video)
       IN IF VideoType(video) = "movie"
          THEN ~(video.set # "" /\ video.setid > 0)
          ELSE /\ "api.get_tvshowid" \in last.queried
               /\ g.tvshowid = UNDEFINED

\* C23: with TMDb Helper unavailable and the fallback setting on, every
\* lookup of the external metadata reached from process_now_playing degrades
\* to no data: no error leaves the call and current_item stays as it was.
C23_UnavailableDegrades ==
    ( /\ ExternalLookupReached
      /\ ~Val(last.given).installed
      /\ SETTINGS.enable_tmdbhelper_fallback )
    => /\ ~last.raised
       /\ last.found = None
       /\ current_item = Val(last.pre_item)

============================================================================
